---- MODULE Spec2Model ----
(***************************************************************************)
(* Model of nitter-guests-manager: three HTTP handlers (count, append,     *)
(* prune) over one log file of JSON lines, a tokio Mutex<WorkingFile>, and *)
(* the snowflake-id -> timestamp decoding used by prune.                   *)
(*                                                                         *)
(* The file is modelled at line granularity: `disk` is the sequence of     *)
(* newline-terminated lines.  Every write_all in the source writes one     *)
(* whole line `format!("{}\n", line)` through a handle opened with         *)
(* O_APPEND, so a write is one atomic extension of the file at its end.    *)
(* Every `.await` of a handler is a separate step, so the steps of         *)
(* different requests interleave as tokio tasks do.  A handler's File      *)
(* write is carried out by tokio's blocking pool between the write_all     *)
(* call and the handler's next file operation; the model performs it at    *)
(* the write step.  The BufReader of count and prune fetches the file in   *)
(* chunks; the model fetches one line per `next_line`, the finest          *)
(* chunking there is.                                                      *)
(***************************************************************************)
EXTENDS Integers, Sequences, FiniteSets, TLC

(***************************************************************************)
(* Bounds of the model.                                                    *)
(***************************************************************************)
\* number of requests the server receives in one behaviour, when requests
\* may arrive at any time
MaxReqs == 2
\* number of requests in one behaviour, when each request arrives after the
\* response to the one before
MaxSeqReqs == 3
\* number of completed sequential requests remembered in `trail`
TrailLen == 3
\* number of prunes in one behaviour, when the file holds sample identifiers
MaxDecodeReqs == 2
\* number of requests in one behaviour, when scheduling is fair
MaxLiveReqs == 2

\* the tasks serving requests concurrently (one tokio task per connection)
Procs == {1, 2}

(***************************************************************************)
(* 64-bit arithmetic.  TLC's integers are 32 bits wide, so a u64/i64 is a  *)
(* 4-limb number in base 10^6, most significant limb first.                *)
(***************************************************************************)
Base == 1000 * 1000

Big(a, b, c, d) == <<a, b, c, d>>
Zero == Big(0, 0, 0, 0)
NLimbs == Len(Zero)
\* a small natural (< 2^31) as a limb number
ToBig(n) == Big(0, 0, n \div Base, n % Base)

\* 2^63, 2^64 and u64::MAX
Two63 == Big(9, 223372, 36854, 775808)
Two64 == Big(18, 446744, 73709, 551616)
U64Max == Big(18, 446744, 73709, 551615)

BigLess(x, y) ==
    \E i \in 1..NLimbs : x[i] < y[i] /\ \A j \in 1..(i - 1) : x[j] = y[j]

BigLeq(x, y) == x = y \/ BigLess(x, y)

RECURSIVE BigAddFrom(_, _, _, _)
BigAddFrom(x, y, i, carry) ==
    IF i = 0 THEN <<>>
    ELSE LET s == x[i] + y[i] + carry
         IN  BigAddFrom(x, y, i - 1, s \div Base) \o <<s % Base>>

BigAdd(x, y) == BigAddFrom(x, y, NLimbs, 0)

\* x - y for x >= y
RECURSIVE BigSubFrom(_, _, _, _)
BigSubFrom(x, y, i, borrow) ==
    IF i = 0 THEN <<>>
    ELSE LET d == x[i] - y[i] - borrow
         IN  IF d < 0
             THEN BigSubFrom(x, y, i - 1, 1) \o <<d + Base>>
             ELSE BigSubFrom(x, y, i - 1, 0) \o <<d>>

BigSub(x, y) == BigSubFrom(x, y, NLimbs, 0)

\* long division by a small divisor d <= 1000 (rem * Base stays below 2^31)
RECURSIVE BigDivFrom(_, _, _, _)
BigDivFrom(x, d, i, rem) ==
    IF i > NLimbs THEN <<>>
    ELSE LET cur == rem * Base + x[i]
         IN  <<cur \div d>> \o BigDivFrom(x, d, i + 1, cur % d)

BigDiv(x, d) == BigDivFrom(x, d, 1, 0)

\* u64 `>> 22`: 2^22 = 128 * 128 * 256, and floor division composes
Shr22(x) == BigDiv(BigDiv(BigDiv(x, 128), 128), 256)

\* u64 `+` (wrapping on overflow, as in a release build)
U64Add(x, y) ==
    LET s == BigAdd(x, y)
    IN  IF BigLess(s, Two64) THEN s ELSE BigSub(s, Two64)

\* `as i64` of a u64: two's complement reinterpretation
AsI64(x) ==
    IF BigLess(x, Two63)
    THEN [neg |-> FALSE, mag |-> x]
    ELSE [neg |-> TRUE, mag |-> BigSub(Two64, x)]

\* i64 `a - b`; the operands of prune are far from the i64 limits, the exact
\* difference is what the subtraction yields
I64Sub(a, b) ==
    IF a.neg = b.neg
    THEN IF BigLeq(b.mag, a.mag)
         THEN [neg |-> a.neg /\ a.mag # b.mag, mag |-> BigSub(a.mag, b.mag)]
         ELSE [neg |-> ~a.neg, mag |-> BigSub(b.mag, a.mag)]
    ELSE [neg |-> a.neg, mag |-> BigAdd(a.mag, b.mag)]

\* i64 `a < b`
I64Less(a, b) ==
    IF a.neg # b.neg THEN a.neg
    ELSE IF a.neg THEN BigLess(b.mag, a.mag)
    ELSE BigLess(a.mag, b.mag)

EPOCH_OFFSET_MS == Big(0, 1, 288834, 974657)

\* a decoding that rounds the milliseconds to the nearest second
id_to_ts_rounding(id) ==
    AsI64(BigDiv(BigAdd(U64Add(Shr22(id), EPOCH_OFFSET_MS), ToBig(500)), 1000))

\* `(((id >> 22) + 1288834974657) / 1000) as i64`
id_to_ts(id) == AsI64(BigDiv(U64Add(Shr22(id), EPOCH_OFFSET_MS), 1000))

MAX_AGE_DAYS == 25
MAX_AGE_SECS == AsI64(ToBig(MAX_AGE_DAYS * 24 * 60 * 60))

(***************************************************************************)
(* JSON texts and values.  A text is what travels in a request body or     *)
(* sits in a line of the file; parsing it yields a value or an error, and  *)
(* serializing a value yields its compact text (insignificant white space  *)
(* of the original text is gone).                                          *)
(***************************************************************************)
\* the decimal string of a number, or a string that is no decimal number
Digits(n) == [digits |-> TRUE, num |-> n]
NotDigits == [digits |-> FALSE, num |-> Zero]

\* {"user":{"id_str":s}} and a JSON value without user.id_str, e.g. {"a":1}
Account(s) == [kind |-> "account", id_str |-> s]
OtherValue == [kind |-> "other", id_str |-> NotDigits]

Text(v, sp) == [wellformed |-> TRUE, spaced |-> sp, val |-> v]
\* a truncated document such as {"a":1
Malformed == [wellformed |-> FALSE, spaced |-> FALSE, val |-> OtherValue]

\* serde_json::to_string_pretty: the text is laid out with white space
to_string_pretty(v) == Text(v, TRUE)

\* serde_json::to_string
to_string(v) == Text(v, FALSE)

\* serde_json parsing of one document into a serde_json::Value
from_text(t) ==
    IF t.wellformed THEN [ok |-> TRUE, val |-> t.val]
    ELSE [ok |-> FALSE, val |-> OtherValue]

\* a stream deserializer that yields the first document only
ParseStreamFirst(b) ==
    IF b = <<>> THEN <<>> ELSE <<from_text(Head(b))>>

\* a stream deserializer that yields nothing but the error when some
\* document of the body does not parse
ParseStreamAllOrNothing(b) ==
    IF \E i \in DOMAIN b : ~from_text(b[i]).ok
    THEN <<[ok |-> FALSE, val |-> OtherValue]>>
    ELSE [i \in DOMAIN b |-> from_text(b[i])]

\* Deserializer::from_reader(body).into_iter().collect(): the parse results
\* of the consecutive documents, ending with the first error
RECURSIVE ParseStream(_)
ParseStream(b) ==
    IF b = <<>> THEN <<>>
    ELSE LET r == from_text(Head(b))
         IN  IF r.ok THEN <<r>> \o ParseStream(Tail(b)) ELSE <<r>>

\* serde_json::from_str::<GuestAccount>(&line)
ParseGuestAccount(line) ==
    LET r == from_text(line)
    IN  [ok |-> r.ok /\ r.val.kind = "account", id_str |-> r.val.id_str]

\* str::parse::<u64>
ParseU64(s) == [ok |-> s.digits /\ BigLeq(s.num, U64Max), id |-> s.num]

(***************************************************************************)
(* The inputs of the model.                                                *)
(***************************************************************************)
\* the example identifier of the specification and its decoded second
IdE == Big(1, 541815, 603606, 36480)
\* an identifier 40 days younger than IdE
IdF == Big(1, 556311, 117788, 86272)

\* the instants the wall clock passes through: the age of IdE is
\* MAX_AGE_SECS - 1 at the first and MAX_AGE_SECS at the second
Times == << Big(0, 0, 1658, 592459), Big(0, 0, 1658, 592460) >>

LineE == Text(Account(Digits(IdE)), FALSE)
LineF == Text(Account(Digits(IdF)), FALSE)
LineNoDigits == Text(Account(NotDigits), FALSE)
LineOther == Text(OtherValue, FALSE)

ItemF == Text(Account(Digits(IdF)), TRUE)

\* the bodies a client sends to /append: documents one after another, some
\* with white space, some that prune cannot decode, some that do not parse
\* (after a valid document, or at the start with more text behind)
Bodies == { <<>>, <<ItemF>>, <<LineE, ItemF>>, <<LineE, LineOther>>,
            <<LineNoDigits>>, <<ItemF, Malformed>>, <<Malformed, LineE>> }

\* what the file at DEST_FILE holds when the server starts: nothing (the
\* file is absent), or a line appended in an earlier run
InitialFiles == { <<>>, <<LineE>> }

\* the documents of those bodies
Items == UNION { { b[i] : i \in DOMAIN b } : b \in Bodies }

\* AppState.auth and the x-auth header of a request (absent, wrong, right)
Auth == "secret"
Headers == { [has |-> FALSE, val |-> ""], [has |-> TRUE, val |-> "guess"],
             [has |-> TRUE, val |-> Auth] }

\* a verify_auth that accepts any x-auth header that is present
verify_auth_present(auth, headers) == headers.has

\* `headers.get("x-auth").ok_or(Forbidden)? == auth`
verify_auth(auth, headers) == headers.has /\ headers.val = auth

Request(o, h, b) == [op |-> o, headers |-> h, body |-> b]

\* the requests of the model: every handler with the right header and every
\* append body; every handler once without the header or with a wrong one
Requests ==
    { Request(o, [has |-> TRUE, val |-> Auth], <<>>) : o \in {"count", "prune"} }
    \cup { Request("append", [has |-> TRUE, val |-> Auth], b) : b \in Bodies }
    \cup { Request("count", [has |-> FALSE, val |-> ""], <<>>),
           Request("append", [has |-> TRUE, val |-> "guess"], <<ItemF>>),
           Request("prune", [has |-> FALSE, val |-> ""], <<>>) }

Range(s) == { s[i] : i \in DOMAIN s }

(***************************************************************************)
(* State.                                                                  *)
(***************************************************************************)
VARIABLES
    disk,             \* the lines of the file at DEST_FILE
    exists,           \* whether the file exists
    dest_file,        \* AppState.dest_file: the task holding the Mutex, or Free
    clock,            \* index into Times of the wall clock at its last reading
    started,          \* number of requests received
    pc,               \* per task: the await point its handler is at
    op,               \* per task: the handler running
    headers,          \* per task: the request's x-auth header
    body,             \* per task: the request body (append)
    pos,              \* per task: the position of its File handle, in lines
    count,            \* per task: count's `count`
    values,           \* per task: append's `values` still to be written
    preserved_lines,  \* per task: prune's `preserved_lines`
    current_time,     \* per task: prune's `current_time`
    res,              \* per task: the handler's return value
    pre,              \* history: the file when the request was received
    overlap,          \* history: another request was in flight during this one
    trail,            \* history: the last requests that ran one after another
    appended,         \* history: per line, how often an append wrote it
    committed,        \* history: lines written by appends that returned Ok
    pruneTimes,       \* history: the current_time of every prune so far
    ioFault           \* history: some file operation has failed

taskVars == <<pc, op, headers, body, pos, count, values, preserved_lines,
              current_time, res>>
histVars == <<pre, overlap, trail, appended, committed, pruneTimes, ioFault>>
vars == <<disk, exists, dest_file, clock, started, pc, op, headers, body, pos,
          count, values, preserved_lines, current_time, res, pre, overlap,
          trail, appended, committed, pruneTimes, ioFault>>

\* the compact lines an append can write
CompactLines == { to_string(from_text(t).val) : t \in { i \in Items : i.wellformed } }

\* the Mutex is held by no task
Free == 0

NoHeader == [has |-> FALSE, val |-> ""]
NoTime == AsI64(Zero)
NoRes == [status |-> "none", text |-> 0]

\* the state after `main` built the AppState, the file being one of `files`
InitWith(files) ==
    /\ disk \in files
    /\ exists = (disk # <<>>)
    /\ dest_file = Free
    /\ clock = 1
    /\ started = 0
    /\ pc = [p \in Procs |-> "idle"]
    /\ op = [p \in Procs |-> "none"]
    /\ headers = [p \in Procs |-> NoHeader]
    /\ body = [p \in Procs |-> <<>>]
    /\ pos = [p \in Procs |-> 0]
    /\ count = [p \in Procs |-> 0]
    /\ values = [p \in Procs |-> <<>>]
    /\ preserved_lines = [p \in Procs |-> <<>>]
    /\ current_time = [p \in Procs |-> NoTime]
    /\ res = [p \in Procs |-> NoRes]
    /\ pre = [p \in Procs |-> <<>>]
    /\ overlap = [p \in Procs |-> FALSE]
    /\ trail = <<>>
    /\ appended = [l \in CompactLines |->
                      Cardinality({ i \in DOMAIN disk : disk[i] = l })]
    /\ committed = Range(disk)
    /\ pruneTimes = {}
    /\ ioFault = FALSE

Init == InitWith(InitialFiles)

(***************************************************************************)
(* Steps common to the handlers.                                           *)
(***************************************************************************)
\* the handler returns: its locals, the File handle among them, are dropped
Finish(p, status, text) ==
    /\ pc' = [pc EXCEPT ![p] = "done"]
    /\ res' = [res EXCEPT ![p] = [status |-> status, text |-> text]]
    /\ pos' = [pos EXCEPT ![p] = 0]
    /\ count' = [count EXCEPT ![p] = 0]
    /\ values' = [values EXCEPT ![p] = <<>>]
    /\ preserved_lines' = [preserved_lines EXCEPT ![p] = <<>>]

\* a file operation fails: `.map_err(|e| ResponseError::Internal(..))?`
IoError(p) ==
    /\ Finish(p, "Internal", 0)
    /\ ioFault' = TRUE

\* prune's `time::UNIX_EPOCH.elapsed()?.as_secs() as i64` when the wall
\* clock is at Times[t] (the clock of the model is never before the epoch,
\* so `elapsed` does not fail)
unix_time_secs(t) == AsI64(Times[t])

\* The server calls the handler of a request.  The handler starts with
\* `verify_auth(&state.auth, &headers)?` and returns Forbidden if it fails;
\* prune then reads the clock; all of them go on to `lock().await`.
\* Tasks are interchangeable: a request goes to the first idle one.
\* Only prune reads the wall clock, so time passes in the model when a prune
\* is called: t is the instant of Times the clock is at then, and `now` is
\* what prune's `elapsed().as_secs() as i64` yields.
AcceptAt(p, req, t, now) ==
    /\ pc[p] = "idle"
    /\ \A q \in Procs : q < p => pc[q] # "idle"
    /\ started' = started + 1
    /\ op' = [op EXCEPT ![p] = req.op]
    /\ headers' = [headers EXCEPT ![p] = req.headers]
    /\ body' = [body EXCEPT ![p] = req.body]
    /\ pre' = [pre EXCEPT ![p] = disk]
    /\ overlap' = [q \in Procs |->
                     IF q = p THEN \E r \in Procs \ {p} : pc[r] # "idle"
                     ELSE overlap[q] \/ pc[q] # "idle"]
    /\ t >= clock
    /\ IF ~verify_auth(Auth, req.headers)
       THEN /\ Finish(p, "Forbidden", 0)
            /\ t = clock
            /\ UNCHANGED <<clock, current_time, pruneTimes>>
       ELSE /\ pc' = [pc EXCEPT ![p] = "lock"]
            /\ IF req.op = "prune"
               THEN /\ clock' = t
                    /\ current_time' = [current_time EXCEPT ![p] = now]
                    /\ pruneTimes' = pruneTimes \cup {now}
               ELSE /\ t = clock
                    /\ UNCHANGED <<clock, current_time, pruneTimes>>
            /\ UNCHANGED <<res, pos, count, values, preserved_lines>>
    /\ UNCHANGED <<disk, exists, dest_file, trail, appended, committed, ioFault>>

Accept(p, req, t) == AcceptAt(p, req, t, unix_time_secs(t))

\* a request arrives, whatever the other tasks are doing
Arrive(p, req, t) ==
    /\ started < MaxReqs
    /\ Accept(p, req, t)

\* a request arrives after all responses to the earlier ones were sent
ArriveAlone(p, req, t) ==
    /\ started < MaxSeqReqs
    /\ \A q \in Procs : pc[q] = "idle"
    /\ Accept(p, req, t)

\* `state.dest_file.lock().await`: the task waits until the Mutex is free
Lock(p) ==
    /\ pc[p] = "lock"
    /\ dest_file = Free
    /\ dest_file' = p
    /\ pc' = [pc EXCEPT ![p] = "open"]
    /\ UNCHANGED <<disk, exists, clock, started, op, headers, body, pos, count,
                   values, preserved_lines, current_time, res, histVars>>

\* an open whose error path returns without dropping the MutexGuard
OpenLeakingLock(p, ok) ==
    /\ pc[p] = "open"
    /\ dest_file = p
    /\ IF ok
       THEN /\ dest_file' = Free
            /\ exists' = TRUE
            /\ pos' = [pos EXCEPT ![p] = 0]
            /\ pc' = [pc EXCEPT ![p] = "seek"]
            /\ UNCHANGED <<res, count, values, preserved_lines, ioFault>>
       ELSE /\ IoError(p)
            /\ UNCHANGED <<exists, dest_file>>
    /\ UNCHANGED <<disk, clock, started, op, headers, body, current_time, pre,
                   overlap, trail, appended, committed, pruneTimes>>

\* `.open().await.map_err(..)?;` OpenOptions create+read+append.  The
\* MutexGuard is a temporary of this `let` statement: it is dropped at the
\* statement's end, whether open succeeded or not.
Open(p, ok) ==
    /\ pc[p] = "open"
    /\ dest_file = p
    /\ dest_file' = Free
    /\ IF ok
       THEN /\ exists' = TRUE
            /\ pos' = [pos EXCEPT ![p] = 0]
            /\ pc' = [pc EXCEPT ![p] = "seek"]
            /\ UNCHANGED <<res, count, values, preserved_lines, ioFault>>
       ELSE /\ IoError(p)
            /\ UNCHANGED exists
    /\ UNCHANGED <<disk, clock, started, op, headers, body, current_time, pre,
                   overlap, trail, appended, committed, pruneTimes>>

(***************************************************************************)
(* File operations on a handle opened by WorkingFile::open.                *)
(***************************************************************************)
\* write_all of one line without O_APPEND: the line lands at the handle's
\* own position and replaces what is there
write_all_at_position(d, at, line) ==
    IF at >= Len(d) THEN Append(d, line)
    ELSE [i \in 1..Len(d) |-> IF i = at + 1 THEN line ELSE d[i]]

\* write_all of one line through the O_APPEND handle: whatever the handle's
\* position `at`, the line lands at the end of the file
write_all(d, at, line) == Append(d, line)

\* set_len that leaves the file as it is
set_len_noop(d, n) == d

\* File::set_len(n), n in lines
set_len(d, n) == SubSeq(d, 1, n)

(***************************************************************************)
(* count (handler.rs)                                                      *)
(***************************************************************************)
\* `file.seek(SeekFrom::Start(0))` of count and of prune's scan
SeekStart(p, ok) ==
    /\ pc[p] = "seek"
    /\ op[p] \in {"count", "prune"}
    /\ IF ok
       THEN /\ pos' = [pos EXCEPT ![p] = 0]
            /\ pc' = [pc EXCEPT ![p] = "read"]
            /\ UNCHANGED <<res, count, values, preserved_lines, ioFault>>
       ELSE IoError(p)
    /\ UNCHANGED <<disk, exists, dest_file, clock, started, op, headers, body,
                   current_time, pre, overlap, trail, appended, committed,
                   pruneTimes>>

\* a count whose loop condition also counts the end of the file
CountNextLineAndEnd(p, ok) ==
    /\ pc[p] = "read"
    /\ op[p] = "count"
    /\ IF ~ok THEN IoError(p)
       ELSE IF pos[p] < Len(disk)
       THEN /\ count' = [count EXCEPT ![p] = @ + 1]
            /\ pos' = [pos EXCEPT ![p] = @ + 1]
            /\ UNCHANGED <<pc, res, values, preserved_lines, ioFault>>
       ELSE /\ Finish(p, "Ok", count[p] + 1)
            /\ UNCHANGED ioFault
    /\ UNCHANGED <<disk, exists, dest_file, clock, started, op, headers, body,
                   current_time, pre, overlap, trail, appended, committed,
                   pruneTimes>>

\* one `lines.next_line().await` of count's loop; at end of file the loop
\* ends and the handler returns `count.to_string()`
CountNextLine(p, ok) ==
    /\ pc[p] = "read"
    /\ op[p] = "count"
    /\ IF ~ok THEN IoError(p)
       ELSE IF pos[p] < Len(disk)
       THEN /\ count' = [count EXCEPT ![p] = @ + 1]
            /\ pos' = [pos EXCEPT ![p] = @ + 1]
            /\ UNCHANGED <<pc, res, values, preserved_lines, ioFault>>
       ELSE /\ Finish(p, "Ok", count[p])
            /\ UNCHANGED ioFault
    /\ UNCHANGED <<disk, exists, dest_file, clock, started, op, headers, body,
                   current_time, pre, overlap, trail, appended, committed,
                   pruneTimes>>

(***************************************************************************)
(* append (handler.rs)                                                     *)
(***************************************************************************)
\* `file.seek(SeekFrom::End(0))`, then the body's documents are collected
AppendSeek(p, ok) ==
    /\ pc[p] = "seek"
    /\ op[p] = "append"
    /\ IF ok
       THEN /\ pos' = [pos EXCEPT ![p] = Len(disk)]
            /\ values' = [values EXCEPT ![p] = ParseStream(body[p])]
            /\ pc' = [pc EXCEPT ![p] = "write"]
            /\ UNCHANGED <<res, count, preserved_lines, ioFault>>
       ELSE IoError(p)
    /\ UNCHANGED <<disk, exists, dest_file, clock, started, op, headers, body,
                   current_time, pre, overlap, trail, appended, committed,
                   pruneTimes>>

\* one iteration of `for value in values`: an unparsable document ends the
\* handler with InvalidJson, a value is serialized and written as one line
AppendWrite(p, ok) ==
    /\ pc[p] = "write"
    /\ op[p] = "append"
    /\ values[p] # <<>>
    /\ LET value == Head(values[p])
           line == to_string(value.val)
       IN  IF ~value.ok
           THEN /\ Finish(p, "InvalidJson", 0)
                /\ UNCHANGED <<disk, appended, ioFault>>
           ELSE IF ~ok
           THEN /\ IoError(p)
                /\ UNCHANGED <<disk, appended>>
           ELSE /\ disk' = write_all(disk, pos[p], line)
                /\ pos' = [pos EXCEPT ![p] = Len(disk')]
                /\ values' = [values EXCEPT ![p] = Tail(@)]
                /\ appended' = [appended EXCEPT ![line] = @ + 1]
                /\ UNCHANGED <<pc, res, count, preserved_lines, ioFault>>
    /\ UNCHANGED <<exists, dest_file, clock, started, op, headers, body,
                   current_time, pre, overlap, trail, committed, pruneTimes>>

\* `file.flush()` after the loop, then `Ok(())`
AppendFlush(p, ok) ==
    /\ pc[p] = "write"
    /\ op[p] = "append"
    /\ values[p] = <<>>
    /\ IF ok
       THEN /\ Finish(p, "Ok", 0)
            /\ committed' = committed \cup
                   { to_string(r.val) : r \in Range(ParseStream(body[p])) }
            /\ UNCHANGED ioFault
       ELSE /\ IoError(p)
            /\ UNCHANGED committed
    /\ UNCHANGED <<disk, exists, dest_file, clock, started, op, headers, body,
                   current_time, pre, overlap, trail, appended, pruneTimes>>

(***************************************************************************)
(* prune (handler.rs)                                                      *)
(***************************************************************************)
\* the retention test with `<=` in place of `<`
KeepUpToMaxAge(now, id) ==
    LET age == I64Sub(now, id_to_ts(id))
    IN  I64Less(age, MAX_AGE_SECS) \/ age = MAX_AGE_SECS

\* a retention test on the distance between the two times
KeepWithinWindow(now, id) ==
    LET age == I64Sub(now, id_to_ts(id))
    IN  I64Less([neg |-> FALSE, mag |-> age.mag], MAX_AGE_SECS)

\* a retention test that takes a negative age for an error
KeepPastOnly(now, id) ==
    LET age == I64Sub(now, id_to_ts(id))
    IN  ~age.neg /\ I64Less(age, MAX_AGE_SECS)

\* `current_time - ts < MAX_AGE_SECS` with `ts = id_to_ts(id)`
Keep(now, id) == I64Less(I64Sub(now, id_to_ts(id)), MAX_AGE_SECS)

\* a scan that passes over a line it cannot decode
ScanLineSkipping(kept, line, now) ==
    LET account == ParseGuestAccount(line)
        id == ParseU64(account.id_str)
    IN  IF ~account.ok \/ ~id.ok THEN [ok |-> TRUE, kept |-> kept]
        ELSE IF Keep(now, id.id) THEN [ok |-> TRUE, kept |-> Append(kept, line)]
        ELSE [ok |-> TRUE, kept |-> kept]

\* a scan that collects the lines to keep in reverse
ScanLineReversing(kept, line, now) ==
    LET account == ParseGuestAccount(line)
        id == ParseU64(account.id_str)
    IN  IF ~account.ok \/ ~id.ok THEN [ok |-> FALSE, kept |-> kept]
        ELSE IF Keep(now, id.id) THEN [ok |-> TRUE, kept |-> <<line>> \o kept]
        ELSE [ok |-> TRUE, kept |-> kept]

\* the body of prune's `while let Some(line)` loop: decode the line's
\* identifier, fail on a line that does not decode, keep the line if young
ScanLine(kept, line, now) ==
    LET account == ParseGuestAccount(line)
        id == ParseU64(account.id_str)
    IN  IF ~account.ok \/ ~id.ok THEN [ok |-> FALSE, kept |-> kept]
        ELSE IF Keep(now, id.id) THEN [ok |-> TRUE, kept |-> Append(kept, line)]
        ELSE [ok |-> TRUE, kept |-> kept]

\* one `lines.next_line().await` of prune's scan and the loop body; at end
\* of file the scan is over
PruneNextLine(p, ok) ==
    /\ pc[p] = "read"
    /\ op[p] = "prune"
    /\ IF ~ok THEN IoError(p)
       ELSE IF pos[p] < Len(disk)
       THEN LET r == ScanLine(preserved_lines[p], disk[pos[p] + 1], current_time[p])
            IN  IF r.ok
                THEN /\ preserved_lines' = [preserved_lines EXCEPT ![p] = r.kept]
                     /\ pos' = [pos EXCEPT ![p] = @ + 1]
                     /\ UNCHANGED <<pc, res, count, values, ioFault>>
                ELSE /\ Finish(p, "Internal", 0)
                     /\ UNCHANGED ioFault
       ELSE /\ pc' = [pc EXCEPT ![p] = "truncate"]
            /\ UNCHANGED <<res, pos, count, values, preserved_lines, ioFault>>
    /\ UNCHANGED <<disk, exists, dest_file, clock, started, op, headers, body,
                   current_time, pre, overlap, trail, appended, committed,
                   pruneTimes>>

\* `file.set_len(0)`
PruneTruncate(p, ok) ==
    /\ pc[p] = "truncate"
    /\ IF ok
       THEN /\ disk' = set_len(disk, 0)
            /\ pc' = [pc EXCEPT ![p] = "rewind"]
            /\ UNCHANGED <<res, pos, count, values, preserved_lines, ioFault>>
       ELSE /\ IoError(p)
            /\ UNCHANGED disk
    /\ UNCHANGED <<exists, dest_file, clock, started, op, headers, body,
                   current_time, pre, overlap, trail, appended, committed,
                   pruneTimes>>

\* `file.seek(SeekFrom::Start(0))` after the truncation
PruneRewind(p, ok) ==
    /\ pc[p] = "rewind"
    /\ IF ok
       THEN /\ pos' = [pos EXCEPT ![p] = 0]
            /\ pc' = [pc EXCEPT ![p] = "rewrite"]
            /\ UNCHANGED <<res, count, values, preserved_lines, ioFault>>
       ELSE IoError(p)
    /\ UNCHANGED <<disk, exists, dest_file, clock, started, op, headers, body,
                   current_time, pre, overlap, trail, appended, committed,
                   pruneTimes>>

\* one iteration of `for line in preserved_lines`
PruneWrite(p, ok) ==
    /\ pc[p] = "rewrite"
    /\ preserved_lines[p] # <<>>
    /\ IF ok
       THEN /\ disk' = write_all(disk, pos[p], Head(preserved_lines[p]))
            /\ pos' = [pos EXCEPT ![p] = Len(disk')]
            /\ preserved_lines' = [preserved_lines EXCEPT ![p] = Tail(@)]
            /\ UNCHANGED <<pc, res, count, values, ioFault>>
       ELSE /\ IoError(p)
            /\ UNCHANGED disk
    /\ UNCHANGED <<exists, dest_file, clock, started, op, headers, body,
                   current_time, pre, overlap, trail, appended, committed,
                   pruneTimes>>

\* `file.flush()` after the rewrite, then `Ok(())`
PruneFlush(p, ok) ==
    /\ pc[p] = "rewrite"
    /\ preserved_lines[p] = <<>>
    /\ IF ok
       THEN /\ Finish(p, "Ok", 0)
            /\ UNCHANGED ioFault
       ELSE IoError(p)
    /\ UNCHANGED <<disk, exists, dest_file, clock, started, op, headers, body,
                   current_time, pre, overlap, trail, appended, committed,
                   pruneTimes>>

(***************************************************************************)
(* The response is sent and the task serves the next request.              *)
(***************************************************************************)
LastN(s, n) == IF Len(s) <= n THEN s ELSE SubSeq(s, Len(s) - n + 1, Len(s))

Return(p) ==
    /\ pc[p] = "done"
    /\ pc' = [pc EXCEPT ![p] = "idle"]
    /\ trail' = IF overlap[p] THEN <<>>
                ELSE LastN(Append(trail, [op |-> op[p], res |-> res[p],
                                          body |-> body[p],
                                          time |-> current_time[p],
                                          pre |-> pre[p], post |-> disk]),
                           TrailLen)
    /\ op' = [op EXCEPT ![p] = "none"]
    /\ headers' = [headers EXCEPT ![p] = NoHeader]
    /\ body' = [body EXCEPT ![p] = <<>>]
    /\ current_time' = [current_time EXCEPT ![p] = NoTime]
    /\ res' = [res EXCEPT ![p] = NoRes]
    /\ pre' = [pre EXCEPT ![p] = <<>>]
    /\ overlap' = [overlap EXCEPT ![p] = FALSE]
    /\ UNCHANGED <<disk, exists, dest_file, clock, started, pos, count, values,
                   preserved_lines, appended, committed, pruneTimes, ioFault>>

\* a step of a handler or of the server
Step ==
    \/ \E p \in Procs : Lock(p)
    \/ \E p \in Procs, ok \in BOOLEAN : Open(p, ok)
    \/ \E p \in Procs, ok \in BOOLEAN : SeekStart(p, ok)
    \/ \E p \in Procs, ok \in BOOLEAN : CountNextLine(p, ok)
    \/ \E p \in Procs, ok \in BOOLEAN : AppendSeek(p, ok)
    \/ \E p \in Procs, ok \in BOOLEAN : AppendWrite(p, ok)
    \/ \E p \in Procs, ok \in BOOLEAN : AppendFlush(p, ok)
    \/ \E p \in Procs, ok \in BOOLEAN : PruneNextLine(p, ok)
    \/ \E p \in Procs, ok \in BOOLEAN : PruneTruncate(p, ok)
    \/ \E p \in Procs, ok \in BOOLEAN : PruneRewind(p, ok)
    \/ \E p \in Procs, ok \in BOOLEAN : PruneWrite(p, ok)
    \/ \E p \in Procs, ok \in BOOLEAN : PruneFlush(p, ok)
    \/ \E p \in Procs : Return(p)

\* requests arrive at any time and are served concurrently
Next ==
    \/ \E p \in Procs, req \in Requests, t \in DOMAIN Times : Arrive(p, req, t)
    \/ Step

Spec == Init /\ [][Next]_vars

\* the clients send one request at a time
SeqNext ==
    \/ \E p \in Procs, req \in Requests, t \in DOMAIN Times : ArriveAlone(p, req, t)
    \/ Step

\* ... to a server started without a file
SeqInit == Init /\ disk = <<>>

SeqSpec == SeqInit /\ [][SeqNext]_vars

(***************************************************************************)
(* Scheduling.  The tokio runtime polls every task that can make progress, *)
(* a file operation handed to the blocking pool completes (with a result   *)
(* or an error), and the server sends the response of a handler that       *)
(* returned: a task that can take a step other than acquiring the Mutex    *)
(* eventually takes one.  tokio's Mutex queues its waiters in FIFO order:  *)
(* a waiter gets the Mutex if it is released again and again.              *)
(***************************************************************************)
\* the steps of task p after `lock().await`
TaskStep(p) ==
    \/ \E ok \in BOOLEAN : Open(p, ok)
    \/ \E ok \in BOOLEAN : SeekStart(p, ok)
    \/ \E ok \in BOOLEAN : CountNextLine(p, ok)
    \/ \E ok \in BOOLEAN : AppendSeek(p, ok)
    \/ \E ok \in BOOLEAN : AppendWrite(p, ok)
    \/ \E ok \in BOOLEAN : AppendFlush(p, ok)
    \/ \E ok \in BOOLEAN : PruneNextLine(p, ok)
    \/ \E ok \in BOOLEAN : PruneTruncate(p, ok)
    \/ \E ok \in BOOLEAN : PruneRewind(p, ok)
    \/ \E ok \in BOOLEAN : PruneWrite(p, ok)
    \/ \E ok \in BOOLEAN : PruneFlush(p, ok)
    \/ Return(p)

Fairness == \A p \in Procs : WF_vars(TaskStep(p)) /\ SF_vars(Lock(p))

\* requests that take the handlers through each of their returns: a count,
\* a prune, an append of a line prune cannot decode, an append that stops
\* at a malformed document, a request without the header
LiveRequests ==
    { Request("count", [has |-> TRUE, val |-> Auth], <<>>),
      Request("prune", [has |-> TRUE, val |-> Auth], <<>>),
      Request("append", [has |-> TRUE, val |-> Auth], <<LineNoDigits>>),
      Request("append", [has |-> TRUE, val |-> Auth], <<ItemF, Malformed>>),
      Request("count", [has |-> FALSE, val |-> ""], <<>>) }

\* a request arrives, whatever the other tasks are doing; the wall clock
\* stays where it is
ArriveAnyTime(p, req) ==
    /\ started < MaxLiveReqs
    /\ Accept(p, req, clock)

LiveNext ==
    \/ \E p \in Procs, req \in LiveRequests : ArriveAnyTime(p, req)
    \/ Step

LiveSpec == Init /\ [][LiveNext]_vars /\ Fairness

(***************************************************************************)
(* Prunes of files holding identifiers from the whole range of u64, at     *)
(* wall-clock readings from the whole range of `as_secs() as i64`.         *)
(***************************************************************************)
\* 0, 2^22 - 1 and 2^22 (the shift), 342 * 2^22 and 343 * 2^22 (the sums
\* 1288834974999 and 1288834975000 ms, either side of a second), the two
\* identifiers of the requests, 2^63 - 1 and 2^63 (the sign bit), u64::MAX
SampleIds ==
    { Zero, Big(0, 0, 4, 194303), Big(0, 0, 4, 194304),
      Big(0, 0, 1434, 451968), Big(0, 0, 1438, 646272),
      IdE, IdF, Big(9, 223372, 36854, 775807), Two63, U64Max }

LineOf(id) == Text(Account(Digits(id)), FALSE)

\* a file left by earlier appends: one sample line, or the two known lines
DecodeFiles == { <<LineOf(id)>> : id \in SampleIds } \cup { <<LineE, LineF>> }

\* readings of the wall clock in seconds: the epoch; 1 second before the
\* second IdE decodes to, then 1 day, 25 days less 1 second, 25 days and
\* 26 days after it; i64::MAX
DecodeTimes ==
    { Zero, Big(0, 0, 1656, 432459), Big(0, 0, 1656, 518860),
      Big(0, 0, 1658, 592459), Big(0, 0, 1658, 592460),
      Big(0, 0, 1658, 678860), Big(9, 223372, 36854, 775807) }

\* an authenticated prune arrives after the response to the one before;
\* the wall clock, which an administrator may set, reads `now`
ArrivePrune(p, now) ==
    /\ started < MaxDecodeReqs
    /\ \A q \in Procs : pc[q] = "idle"
    /\ AcceptAt(p, Request("prune", [has |-> TRUE, val |-> Auth], <<>>),
                clock, AsI64(now))

\* the steps of prune when no file operation fails
PruneStep ==
    \/ \E p \in Procs : Lock(p)
    \/ \E p \in Procs : Open(p, TRUE)
    \/ \E p \in Procs : SeekStart(p, TRUE)
    \/ \E p \in Procs : PruneNextLine(p, TRUE)
    \/ \E p \in Procs : PruneTruncate(p, TRUE)
    \/ \E p \in Procs : PruneRewind(p, TRUE)
    \/ \E p \in Procs : PruneWrite(p, TRUE)
    \/ \E p \in Procs : PruneFlush(p, TRUE)
    \/ \E p \in Procs : Return(p)

DecodeNext ==
    \/ \E p \in Procs, now \in DecodeTimes : ArrivePrune(p, now)
    \/ PruneStep

DecodeInit == InitWith(DecodeFiles)

DecodeSpec == DecodeInit /\ [][DecodeNext]_vars

(***************************************************************************)
(* Vocabulary of the properties.                                           *)
(***************************************************************************)
\* the task holds an open File and has not finished its last operation on it
InFlight(p) == pc[p] \in {"seek", "read", "write", "truncate", "rewind", "rewrite"}

\* every handler that was called has returned
AllReturned == \A p \in Procs : pc[p] \in {"idle", "done"}

Copies(d, l) == Cardinality({ i \in DOMAIN d : d[i] = l })

\* a line whose user.id_str is the decimal string of a u64
Decodable(l) ==
    /\ l.wellformed
    /\ l.val.kind = "account"
    /\ l.val.id_str.digits
    /\ BigLeq(l.val.id_str.num, U64Max)

\* the second an identifier decodes to, worked out by hand:
\* ((id >> 22) + 1288834974657) / 1000
DecodedSecs(id) ==
    IF id = IdE THEN Big(0, 0, 1656, 432460) ELSE Big(0, 0, 1659, 888460)

\* the retention rule of the specification for a decodable line at the
\* captured time t: t - ts < 2160000, i.e. t < ts + 2160000
Retained(l, t) ==
    /\ ~t.neg
    /\ BigLess(t.mag, BigAdd(DecodedSecs(l.val.id_str.num), ToBig(2160000)))

\* the age of line l at time t is exactly n seconds
AgeIs(l, t, n) == t.mag = BigAdd(DecodedSecs(l.val.id_str.num), ToBig(n))

\* the subsequence of d the retention rule keeps at time t
RECURSIVE RetainedLines(_, _)
RetainedLines(d, t) ==
    IF d = <<>> THEN <<>>
    ELSE IF Retained(Head(d), t)
    THEN <<Head(d)>> \o RetainedLines(Tail(d), t)
    ELSE RetainedLines(Tail(d), t)

\* entry i of the trail is a handler `o` that returned Ok
RanOk(i, o) ==
    /\ i \in DOMAIN trail
    /\ trail[i].op = o
    /\ trail[i].res.status = "Ok"

(***************************************************************************)
(* C1: at most one handler is between opening the file and its last        *)
(* operation on it, and a handler in that span holds the Mutex.            *)
(***************************************************************************)
C1_MutualExclusion ==
    /\ Cardinality({ p \in Procs : InFlight(p) }) <= 1
    /\ \A p \in Procs : InFlight(p) => dest_file = p

(***************************************************************************)
(* C2: once all calls have returned (and no file operation failed), every  *)
(* line written by an append that returned Ok, and young enough at the     *)
(* captured time of every prune, is a line of the file.                    *)
(***************************************************************************)
C2_NoRecordLost ==
    (AllReturned /\ ~ioFault) =>
        \A l \in committed :
            (Decodable(l) /\ \A t \in pruneTimes : Retained(l, t))
                => l \in Range(disk)

(***************************************************************************)
(* C3: the file never holds more copies of a line than appends wrote.      *)
(***************************************************************************)
C3_NoDuplicate ==
    \A l \in CompactLines : Copies(disk, l) <= appended[l]

(***************************************************************************)
(* C4: a count that ran together with a prune, both started on the same    *)
(* file content, returns the number of lines before the prune or the       *)
(* number after it, never that of the truncated or half rewritten file.    *)
(***************************************************************************)
C4_CountSeesWholeFile ==
    \A p, q \in Procs :
        ( /\ op[p] = "prune" /\ pc[p] = "done" /\ res[p].status = "Ok"
          /\ op[q] = "count" /\ pc[q] = "done" /\ res[q].status = "Ok"
          /\ pre[p] = pre[q] )
        => res[q].text \in { Len(pre[p]), Len(disk) }

(***************************************************************************)
(* C5: when the only requests so far are concurrent appends of one valid   *)
(* JSON value each, on the empty log, and all returned Ok, the file has    *)
(* one line per append, each the compact text of one appended value.       *)
(***************************************************************************)
OneValueAppendsDone ==
    /\ started = Cardinality(Procs)
    /\ \A p \in Procs :
        /\ pre[p] = <<>>
        /\ pc[p] = "done"
        /\ op[p] = "append"
        /\ res[p].status = "Ok"
        /\ Len(body[p]) = 1

C5_ConcurrentAppends ==
    OneValueAppendsDone =>
        /\ Len(disk) = Cardinality(Procs)
        /\ \A l \in Range(disk) \cup CompactLines :
             Copies(disk, l) =
               Cardinality({ p \in Procs : Text(body[p][1].val, FALSE) = l })

C5_Witness ==
    /\ OneValueAppendsDone
    /\ \A p \in Procs : overlap[p]
    /\ \E p \in Procs : body[p][1].spaced

(***************************************************************************)
(* The properties below are about requests served one after another.      *)
(***************************************************************************)

(***************************************************************************)
(* C6: count returns c, then an append of N valid values returns Ok, then  *)
(* count, one after another with nothing in between: the second count      *)
(* returns c + N.                                                          *)
(***************************************************************************)
CountAppendCount(i) == RanOk(i, "count") /\ RanOk(i + 1, "append") /\ RanOk(i + 2, "count")

C7_RetentionRule ==
    \A i \in DOMAIN trail :
        RanOk(i, "prune") =>
            \A l \in Range(trail[i].pre) :
                (l \in Range(trail[i].post)) <=> Retained(l, trail[i].time)

C7_Witness ==
    \E i, j \in DOMAIN trail :
        /\ RanOk(i, "prune") /\ RanOk(j, "prune")
        /\ \E l \in Range(trail[i].pre) :
             AgeIs(l, trail[i].time, 2159999) /\ l \in Range(trail[i].post)
        /\ \E l \in Range(trail[j].pre) :
             AgeIs(l, trail[j].time, 2160000) /\ l \notin Range(trail[j].post)

(***************************************************************************)
(* C8: after a prune that ran alone and returned Ok the file is exactly    *)
(* the subsequence of the lines it held before that the retention rule     *)
(* keeps, unchanged and in their order.                                    *)
(***************************************************************************)
C8_PruneResult ==
    \A i \in DOMAIN trail :
        RanOk(i, "prune") =>
            trail[i].post = RetainedLines(trail[i].pre, trail[i].time)

C8_Witness ==
    \E i \in DOMAIN trail :
        /\ RanOk(i, "prune")
        /\ Len(trail[i].post) >= 2
        /\ trail[i].post[1] # trail[i].post[2]

(***************************************************************************)
(* C9 as stated: of two prunes run one after the other, both Ok, the       *)
(* second leaves the file as the first left it.                            *)
(***************************************************************************)
PruneTwice(i) == RanOk(i, "prune") /\ RanOk(i + 1, "prune")

C9_PruneIdempotent ==
    \A i \in DOMAIN trail :
        PruneTwice(i) => trail[i + 1].post = trail[i].post

(***************************************************************************)
(* C9 amended: the second prune leaves of the first prune's result what    *)
(* the retention rule keeps at the second prune's own current_time; when   *)
(* both captured the same current_time the file is as the first left it.   *)
(***************************************************************************)
C9_PruneIdempotentAtSameTime ==
    \A i \in DOMAIN trail :
        PruneTwice(i) =>
            /\ trail[i + 1].post = RetainedLines(trail[i].post, trail[i + 1].time)
            /\ trail[i + 1].time = trail[i].time
                   => trail[i + 1].post = trail[i].post

C9_Witness ==
    \E i \in DOMAIN trail :
        /\ PruneTwice(i)
        /\ trail[i + 1].time = trail[i].time
        /\ trail[i].post # trail[i].pre
        /\ trail[i].post # <<>>

(***************************************************************************)
(* C10: a prune that ran alone on a file with a line it cannot decode      *)
(* returns the internal error and leaves the file as it was; such a prune  *)
(* never reaches the truncation.                                           *)
(***************************************************************************)
HasUndecodable(d) == \E l \in Range(d) : ~Decodable(l)

C10_PruneFailFast ==
    /\ \A i \in DOMAIN trail :
         ( /\ trail[i].op = "prune"
           /\ trail[i].res.status # "Forbidden"
           /\ HasUndecodable(trail[i].pre) )
         => /\ trail[i].res.status = "Internal"
            /\ trail[i].post = trail[i].pre
    /\ \A p \in Procs :
         ( /\ op[p] = "prune"
           /\ ~overlap[p]
           /\ pc[p] \in {"truncate", "rewind", "rewrite"} )
         => ~HasUndecodable(pre[p])

C10_Witness ==
    \E i \in DOMAIN trail :
        /\ trail[i].op = "prune"
        /\ trail[i].res.status = "Internal"
        /\ ~ioFault
        /\ Len(trail[i].pre) = 2
        /\ Decodable(trail[i].pre[1])
        /\ ~Retained(trail[i].pre[1], trail[i].time)
        /\ ~Decodable(trail[i].pre[2])
        /\ trail[i].post = trail[i].pre

(***************************************************************************)
(* C11: an append that ran alone with a body holding a document that does  *)
(* not parse, and met no file error, returns InvalidJson; the file is then *)
(* the file before followed by the compact lines of the valid documents    *)
(* preceding the malformed one: unchanged when there is none, nothing of   *)
(* what follows the malformed document, and the next request finds them.   *)
(***************************************************************************)
HasMalformed(b) == \E k \in DOMAIN b : ~b[k].wellformed

\* the compact lines of the documents before the first malformed one
RECURSIVE CompactPrefix(_)
CompactPrefix(b) ==
    IF b = <<>> THEN <<>>
    ELSE IF ~Head(b).wellformed THEN <<>>
    ELSE <<Text(Head(b).val, FALSE)>> \o CompactPrefix(Tail(b))

AppendRanMalformed(i) ==
    /\ i \in DOMAIN trail
    /\ trail[i].op = "append"
    /\ trail[i].res.status \notin {"Forbidden", "Internal"}
    /\ HasMalformed(trail[i].body)

C11_AppendMalformed ==
    \A i \in DOMAIN trail :
        /\ AppendRanMalformed(i) =>
              /\ trail[i].res.status = "InvalidJson"
              /\ trail[i].post = trail[i].pre \o CompactPrefix(trail[i].body)
              /\ (i + 1) \in DOMAIN trail => trail[i + 1].pre = trail[i].post
        /\ (trail[i].op = "append" /\ trail[i].res.status = "InvalidJson")
              => HasMalformed(trail[i].body)

C11_Witness ==
    \E i, j \in DOMAIN trail :
        /\ AppendRanMalformed(i) /\ AppendRanMalformed(j)
        /\ trail[i].body[1].wellformed
        /\ trail[i].post = Append(trail[i].pre, LineF)
        /\ ~trail[j].body[1].wellformed
        /\ Len(trail[j].body) = 2
        /\ trail[j].pre # <<>>
        /\ trail[j].post = trail[j].pre

(***************************************************************************)
(* C15: after an append that ran alone, whatever it returned, the file is  *)
(* the file before followed by compact lines of the body's leading valid   *)
(* documents, in the body's order; all of them when it returned Ok, none   *)
(* when it returned Forbidden.  While it runs the file before stays a      *)
(* prefix of the file.                                                     *)
(***************************************************************************)
IsPrefix(a, b) == Len(a) <= Len(b) /\ SubSeq(b, 1, Len(a)) = a

Suffix(a, b) == SubSeq(b, Len(a) + 1, Len(b))

Compact(l) == l.wellformed /\ ~l.spaced

C15_AppendAddsLinesAtEnd ==
    /\ \A i \in DOMAIN trail :
          trail[i].op = "append" =>
              LET added == Suffix(trail[i].pre, trail[i].post)
              IN  /\ IsPrefix(trail[i].pre, trail[i].post)
                  /\ IsPrefix(added, CompactPrefix(trail[i].body))
                  /\ \A k \in DOMAIN added :
                        /\ Compact(added[k])
                        /\ added[k].val = trail[i].body[k].val
                  /\ trail[i].res.status = "Ok"
                        => Len(added) = Len(trail[i].body)
                  /\ trail[i].res.status = "Forbidden" => added = <<>>
    /\ \A p \in Procs :
          (op[p] = "append" /\ ~overlap[p]) => IsPrefix(pre[p], disk)

C15_Witness ==
    \E i, j \in DOMAIN trail :
        /\ RanOk(i, "append")
        /\ trail[i].pre # <<>>
        /\ Len(trail[i].body) = 2
        /\ trail[i].body[2].spaced
        /\ trail[i].post = trail[i].pre \o <<LineE, LineF>>
        /\ trail[j].op = "append"
        /\ trail[j].res.status = "Internal"
        /\ Len(trail[j].body) = 2
        /\ Len(trail[j].post) = Len(trail[j].pre) + 1

(***************************************************************************)
(* C16: a count that ran alone leaves the file as it was, whatever it      *)
(* returned, and the file is the same at each of its steps; when it        *)
(* returns Ok its result is the number of lines of the file, 0 for the     *)
(* empty file and for the file its own open created.                       *)
(***************************************************************************)
C16_CountReadOnlyExact ==
    /\ \A i \in DOMAIN trail :
          trail[i].op = "count" =>
              /\ trail[i].post = trail[i].pre
              /\ trail[i].res.status = "Ok"
                    => trail[i].res.text = Len(trail[i].pre)
              /\ trail[i].res.status \in {"Ok", "Forbidden", "Internal"}
    /\ \A p \in Procs :
          (op[p] = "count" /\ ~overlap[p]) =>
              /\ disk = pre[p]
              /\ (pc[p] = "done" /\ res[p].status = "Ok" /\ started = 1)
                    => (exists /\ res[p].text = 0)

C16_Witness ==
    \E i, j \in DOMAIN trail :
        /\ i = 1 /\ RanOk(i, "count") /\ trail[i].res.text = 0
        /\ RanOk(j, "count") /\ trail[j].res.text = 2
        /\ trail[j].post = trail[j].pre

(***************************************************************************)
(* C12: a request whose x-auth header is missing or is not the configured  *)
(* secret is answered Forbidden at once: its task is never at the lock, at *)
(* the open or at a file operation and never holds the Mutex; receiving it *)
(* and answering it leave the file, its existence, the Mutex and every     *)
(* other task as they are.  No other request is answered Forbidden.        *)
(***************************************************************************)
Authentic(h) == h = [has |-> TRUE, val |-> "secret"]

Rejected(p) == op[p] # "none" /\ ~Authentic(headers[p])

C12_AuthFirst ==
    /\ [](\A p \in Procs :
            /\ Rejected(p) =>
                  /\ pc[p] = "done"
                  /\ res[p].status = "Forbidden"
                  /\ dest_file # p
            /\ res[p].status = "Forbidden" => Rejected(p))
    /\ [][\A p \in Procs :
            ((op[p] = "none" /\ Rejected(p)') \/ (Rejected(p) /\ op'[p] = "none"))
                => /\ UNCHANGED <<disk, exists, dest_file>>
                   /\ \A q \in Procs \ {p} : pc'[q] = pc[q]]_vars

C12_Witness ==
    \E p, q \in Procs :
        /\ Rejected(p)
        /\ headers[p].has
        /\ pc[p] = "done"
        /\ ~exists
        /\ pc[q] = "lock"
        /\ dest_file = Free

(***************************************************************************)
(* The properties below are about prunes of files of sample identifiers.   *)
(***************************************************************************)
\* x * m for a small factor m <= 1000; the top limb takes the overflow
RECURSIVE BigMulFrom(_, _, _, _)
BigMulFrom(x, m, i, carry) ==
    LET s == x[i] * m + carry
    IN  IF i = 1 THEN <<s>>
        ELSE BigMulFrom(x, m, i - 1, s \div Base) \o <<s % Base>>

BigMul(x, m) == BigMulFrom(x, m, NLimbs, 0)

\* x * 2^22
Shl22(x) == BigMul(BigMul(BigMul(x, 128), 128), 256)

One == ToBig(1)

\* the sample identifiers decoded by hand: id >> 22, and the second
\* ((id >> 22) + 1288834974657) / 1000
Decoded ==
    { [id |-> Zero,                     shifted |-> Zero,
       secs |-> Big(0, 0, 1288, 834974)],
      [id |-> Big(0, 0, 4, 194303),     shifted |-> Zero,
       secs |-> Big(0, 0, 1288, 834974)],
      [id |-> Big(0, 0, 4, 194304),     shifted |-> Big(0, 0, 0, 1),
       secs |-> Big(0, 0, 1288, 834974)],
      [id |-> Big(0, 0, 1434, 451968),  shifted |-> Big(0, 0, 0, 342),
       secs |-> Big(0, 0, 1288, 834974)],
      [id |-> Big(0, 0, 1438, 646272),  shifted |-> Big(0, 0, 0, 343),
       secs |-> Big(0, 0, 1288, 834975)],
      [id |-> IdE,                      shifted |-> Big(0, 0, 367597, 485448),
       secs |-> Big(0, 0, 1656, 432460)],
      [id |-> IdF,                      shifted |-> Big(0, 0, 371053, 485343),
       secs |-> Big(0, 0, 1659, 888460)],
      [id |-> Big(9, 223372, 36854, 775807), shifted |-> Big(0, 2, 199023, 255551),
       secs |-> Big(0, 0, 3487, 858230)],
      [id |-> Two63,                    shifted |-> Big(0, 2, 199023, 255552),
       secs |-> Big(0, 0, 3487, 858230)],
      [id |-> U64Max,                   shifted |-> Big(0, 4, 398046, 511103),
       secs |-> Big(0, 0, 5686, 881485)] }

DecodedOf(l) == CHOOSE r \in Decoded : r.id = l.val.id_str.num

\* r.shifted is floor(r.id / 2^22), r.secs is floor((r.shifted + offset) /
\* 1000), the sum is below 2^64 and the seconds are below 2^63
DecodedExactly(r) ==
    LET ms == BigAdd(r.shifted, EPOCH_OFFSET_MS)
    IN  /\ BigLeq(Shl22(r.shifted), r.id)
        /\ BigLess(r.id, Shl22(BigAdd(r.shifted, One)))
        /\ BigLess(ms, Two64)
        /\ BigLeq(BigMul(r.secs, 1000), ms)
        /\ BigLess(ms, BigMul(BigAdd(r.secs, One), 1000))
        /\ BigLess(r.secs, Two63)

\* the retention rule at the captured time t (not before the epoch), from
\* the hand-decoded second: t - secs < 2160000, i.e. t < secs + 2160000
RetainedAt(l, t) ==
    /\ ~t.neg
    /\ BigLess(t.mag, BigAdd(DecodedOf(l).secs, ToBig(2160000)))

SecondsPerDay == ToBig(24 * 60 * 60)

\* the time n days after the second IdE decodes to
DaysAfterE(n) == AsI64(BigAdd(DecodedOf(LineE).secs, BigMul(SecondsPerDay, n)))

(***************************************************************************)
(* C13: for identifiers from 0 to u64::MAX, id_to_ts yields the            *)
(* non-negative second floor(((id >> 22) + 1288834974657) / 1000), the sum *)
(* not wrapping in u64 and the result not changing sign as i64; a prune    *)
(* keeps a line exactly when its captured time is less than 2160000 s      *)
(* after that second: for id 1541815603606036480 it keeps the line 1 day   *)
(* after and removes it 26 days after.                                     *)
(***************************************************************************)
C13_IdDecoding ==
    /\ \A l \in Range(disk) :
          LET r == DecodedOf(l)
              id == l.val.id_str.num
          IN  /\ DecodedExactly(r)
              /\ Shr22(id) = r.shifted
              /\ U64Add(Shr22(id), EPOCH_OFFSET_MS) = BigAdd(r.shifted, EPOCH_OFFSET_MS)
              /\ id_to_ts(id) = [neg |-> FALSE, mag |-> r.secs]
    /\ \A i \in DOMAIN trail :
          RanOk(i, "prune") =>
              /\ \A l \in Range(trail[i].pre) :
                    (l \in Range(trail[i].post)) <=> RetainedAt(l, trail[i].time)
              /\ (LineE \in Range(trail[i].pre) /\ trail[i].time = DaysAfterE(1))
                    => LineE \in Range(trail[i].post)
              /\ (LineE \in Range(trail[i].pre) /\ trail[i].time = DaysAfterE(26))
                    => LineE \notin Range(trail[i].post)

C13_Witness ==
    /\ Len(trail) = 2
    /\ RanOk(1, "prune") /\ RanOk(2, "prune")
    /\ trail[1].pre = <<LineE>>
    /\ trail[1].time = DaysAfterE(1)
    /\ trail[1].post = <<LineE>>
    /\ trail[2].time = DaysAfterE(26)
    /\ trail[2].post = <<>>

(***************************************************************************)
(* C14: a task whose handler returned, or that serves no request, never    *)
(* holds the Mutex, whatever the handler returned (Ok or the error of a    *)
(* failed open, seek, read, parse, truncate, write or flush); under fair   *)
(* scheduling every task waiting for the Mutex acquires it and every       *)
(* handler that was called returns.                                        *)
(***************************************************************************)
C14_LockReleaseAndProgress ==
    /\ [](\A p \in Procs : pc[p] \in {"idle", "done"} => dest_file # p)
    /\ \A p \in Procs : (pc[p] = "lock") ~> (dest_file = p)
    /\ \A p \in Procs : (pc[p] # "idle") ~> (pc[p] = "done")

C14_Witness ==
    \E p, q \in Procs :
        /\ pc[p] = "done"
        /\ res[p].status = "Internal"
        /\ overlap[q]
        /\ pre[q] = pre[p]
        /\ dest_file = q

(***************************************************************************)
(* C17: what a prune retains shrinks as its captured time grows.  The      *)
(* result of a prune is the scan of the file at its captured time; the     *)
(* scan of the same file at an earlier time retains every line it          *)
(* retains, and the scan at a later time retains none of the lines it      *)
(* removed; a prune following a prune never adds a line.                   *)
(***************************************************************************)
\* the lines prune's scan of file d retains at the captured time `now`
RECURSIVE PruneOutcome(_, _, _)
PruneOutcome(d, kept, now) ==
    IF d = <<>> THEN kept
    ELSE PruneOutcome(Tail(d), ScanLine(kept, Head(d), now).kept, now)

I64Leq(a, b) == a = b \/ I64Less(a, b)

C17_PruneMonotone ==
    \A i \in DOMAIN trail :
        RanOk(i, "prune") =>
            /\ trail[i].post = PruneOutcome(trail[i].pre, <<>>, trail[i].time)
            /\ \A t \in DecodeTimes :
                  /\ I64Leq(AsI64(t), trail[i].time)
                        => Range(trail[i].post)
                             \subseteq Range(PruneOutcome(trail[i].pre, <<>>, AsI64(t)))
                  /\ I64Leq(trail[i].time, AsI64(t))
                        => Range(PruneOutcome(trail[i].pre, <<>>, AsI64(t)))
                             \subseteq Range(trail[i].post)
            /\ RanOk(i + 1, "prune") =>
                  /\ Len(trail[i + 1].post) <= Len(trail[i].post)
                  /\ Range(trail[i + 1].post) \subseteq Range(trail[i].post)

C17_Witness ==
    /\ Len(trail) = 2
    /\ RanOk(1, "prune") /\ RanOk(2, "prune")
    /\ I64Less(trail[1].time, trail[2].time)
    /\ trail[1].post = <<LineE, LineF>>
    /\ trail[2].post = <<LineF>>

(***************************************************************************)
(* C18: a prune retains every line whose identifier decodes to a second    *)
(* later than its captured time; the age `current_time - ts` is then       *)
(* negative, and for every identifier and every clock reading it is the    *)
(* exact difference, within the range of i64.                              *)
(***************************************************************************)
\* the second the line decodes to is later than the time t
FutureDated(l, t) == ~t.neg /\ BigLess(t.mag, DecodedOf(l).secs)

\* a is the exact difference t - secs and lies in [-2^63, 2^63 - 1]
ExactAge(a, t, secs) ==
    /\ IF BigLeq(secs, t) THEN ~a.neg /\ BigAdd(secs, a.mag) = t
       ELSE a.neg /\ BigAdd(t, a.mag) = secs
    /\ IF a.neg THEN BigLeq(a.mag, Two63) ELSE BigLess(a.mag, Two63)

C18_FutureDatedRetained ==
    /\ \A l \in Range(disk), t \in DecodeTimes :
          LET age == I64Sub(AsI64(t), id_to_ts(l.val.id_str.num))
          IN  /\ ExactAge(age, t, DecodedOf(l).secs)
              /\ FutureDated(l, AsI64(t)) => (age.neg /\ I64Less(age, MAX_AGE_SECS))
    /\ \A i \in DOMAIN trail :
          RanOk(i, "prune") =>
              \A l \in Range(trail[i].pre) :
                  FutureDated(l, trail[i].time) => l \in Range(trail[i].post)

C18_Witness ==
    \E i \in DOMAIN trail :
        /\ RanOk(i, "prune")
        /\ trail[i].time = AsI64(Zero)
        /\ trail[i].pre = <<LineOf(U64Max)>>
        /\ trail[i].post = trail[i].pre

====
